---- MODULE Spec2Model ----
(***************************************************************************)
(* A model of snof's SnowflakeGenerator (src/src/lib.rs): one atomic word  *)
(* packing (timestamp, sequence), advanced by a compare-and-swap loop.     *)
(*                                                                         *)
(* The widths are scaled down so that sequence exhaustion and timestamp    *)
(* overflow are within reach of the model checker: the u64 word becomes a  *)
(* word of WORD_BITS bits, the 22-bit sequence a field of SEQUENCE_BITS    *)
(* bits, and EPOCH a small number of milliseconds.  Every shift, mask and  *)
(* conversion keeps its width (% 2^w) exactly as the code's does.          *)
(***************************************************************************)
EXTENDS Integers, Sequences, FiniteSets, TLC

\* ------------------------------------------------- constants and bounds
\* The reference epoch, in ms since the UNIX epoch (lib.rs:39), scaled: one
\* reading, 0, lies before it.
EPOCH == 1
\* Width of the state word (64 in the code, an AtomicU64).
WORD_BITS == 3
\* Width of the sequence field (22 in the code, lib.rs:41).
SEQUENCE_BITS == 1
\* Number of threads sharing the generator.
NumThreads == 2
\* Total number of generate() calls the model follows.
MaxCalls == 3

Threads == 1..NumThreads

\* ------------------------------------------------------ integer helpers
\* 2^WORD_BITS: one more than the largest value of the state word.
WordLimit == 2^WORD_BITS
\* Width left for the timestamp field (42 in the code: 64 - 22).
TIMESTAMP_BITS == WORD_BITS - SEQUENCE_BITS
\* The clock is a u128: twice the width of the word.
ClockLimit == 2^(2 * WORD_BITS)

\* x << n on a word: the bits shifted past the top are dropped.
ShiftLeft(x, n) == (x * 2^n) % WordLimit
\* x >> n on a word.
ShiftRight(x, n) == x \div 2^n

RECURSIVE BitAnd(_, _)
BitAnd(a, b) ==
    IF a = 0 \/ b = 0 THEN 0
    ELSE (IF a % 2 = 1 /\ b % 2 = 1 THEN 1 ELSE 0) + 2 * BitAnd(a \div 2, b \div 2)

RECURSIVE BitOr(_, _)
BitOr(a, b) ==
    IF a = 0 THEN b
    ELSE IF b = 0 THEN a
    ELSE (IF a % 2 = 1 \/ b % 2 = 1 THEN 1 ELSE 0) + 2 * BitOr(a \div 2, b \div 2)

\* SEQUENCE_MASK without the - 1.
SEQUENCE_MASK_NoMinusOne == ShiftLeft(1, SEQUENCE_BITS)

\* const SEQUENCE_MASK: u64 = (1 << SEQUENCE_BITS) - 1
SEQUENCE_MASK == ShiftLeft(1, SEQUENCE_BITS) - 1

\* An outcome: a value, or none (a panic, an Err, a `continue`).
Some(x) == [ok |-> TRUE, v |-> x]
None == [ok |-> FALSE, v |-> 0]

\* u64::try_from(x): the value when it fits the word, an error otherwise.
TryFromU64(x) == IF x < WordLimit THEN Some(x) ELSE None

\* SaturatingSub as a wrapping subtraction around 2^128.
SaturatingSub_Wrapping(a, b) == IF a >= b THEN a - b ELSE ClockLimit - (b - a)

\* now_ms.saturating_sub(EPOCH)
SaturatingSub(a, b) == IF a >= b THEN a - b ELSE 0

\* SubU128 as a saturating subtraction, the one generate() uses.
SubU128_Saturating(a, b) == {Some(SaturatingSub(a, b))}

\* timestamp - EPOCH on u128: a build with overflow checks panics on
\* underflow, a build without them wraps around 2^128.
SubU128(a, b) == IF a >= b THEN {Some(a - b)} ELSE {None, Some(ClockLimit - (b - a))}

\* The two fields of a word, as generate() unpacks them.
TsOf(w) == ShiftRight(w, SEQUENCE_BITS)
SeqOf(w) == BitAnd(w, SEQUENCE_MASK)

\* Snowflake::new(timestamp, sequence): the set of outcomes over the builds;
\* None is a panic (the subtraction's, or expect("Timestamp overflow")).
SnowflakeNew(timestamp, sequence) ==
    { IF ~d.ok \/ ~TryFromU64(d.v).ok
      THEN None
      ELSE LET shifted == ShiftLeft(TryFromU64(d.v).v, SEQUENCE_BITS)
           IN  Some(BitOr(shifted, BitAnd(sequence, SEQUENCE_MASK)))
      : d \in SubU128(timestamp, EPOCH) }

\* Snowflake::extract_unix_timestamp
ExtractUnixTimestamp(w) == ShiftRight(w, SEQUENCE_BITS) + EPOCH

\* Lexicographic order on (timestamp, sequence).
LexLess(a, b) == TsOf(a) < TsOf(b) \/ (TsOf(a) = TsOf(b) /\ SeqOf(a) < SeqOf(b))
LexLeq(a, b) == LexLess(a, b) \/ (TsOf(a) = TsOf(b) /\ SeqOf(a) = SeqOf(b))

\* ------------------------------------------------------------ the clock
\* Readings whose relative timestamp fits the timestamp field, and the
\* readings before EPOCH.
ClockInRange == 0 .. (EPOCH + 2^TIMESTAMP_BITS - 1)
\* All readings up to the first whose relative timestamp no longer fits the word.
ClockAll == 0 .. (EPOCH + WordLimit)

\* ------------------------------------------------------------ the state
VARIABLES
    gen,            \* "none" before SnowflakeGenerator::new(), then "ready" or "panicked"
    last_state,     \* SnowflakeGenerator.last_state, the atomic word
    now_ms,         \* what unix_timestamp_now_ms() returns at this moment
    pc,             \* where each thread is in generate(): "idle" outside it, "load"
                    \* (line 70), "spin_seq" (85), "spin_clock" (92), "clock" (72),
                    \* "cas" (98), "ret" (104), "panicked" (78)
    current_bits,   \* generate()'s local current_bits, per thread
    read_ms,        \* generate()'s local now_ms (line 76), per thread
    now_ts,         \* generate()'s local now_ts, per thread
    next_bits,      \* generate()'s local next_bits, per thread
    hist,           \* every value last_state has held, in modification order
    commit_ix,      \* per thread: position in hist of the word its CAS installed
    returned,       \* the identifiers returned so far, with their commit position
    prior,          \* per thread: the largest identifier returned before its call was
                    \* invoked (on record under SpecRealTime only)
    calls,          \* number of generate() calls invoked so far
    max_read        \* the largest now_ms - EPOCH that new() or generate() has read

vars == << gen, last_state, now_ms, pc, current_bits, read_ms, now_ts, next_bits,
           hist, commit_ix, returned, prior, calls, max_read >>

locals == << current_bits, read_ms, now_ts, next_bits >>

Range(s) == { s[i] : i \in 1..Len(s) }

\* The largest word of a set in the order of (timestamp, sequence), if any.
LexMax(S) ==
    IF S = {} THEN None
    ELSE Some(CHOOSE m \in S : \A x \in S : LexLeq(x, m))

\* The record of the largest relative reading, with one more reading d.
Larger(m, d) == IF m.ok /\ m.v >= d THEN m ELSE Some(d)

Init ==
    /\ gen = "none"
    /\ last_state = 0
    /\ now_ms \in ClockInRange
    /\ pc = [t \in Threads |-> "idle"]
    /\ current_bits = [t \in Threads |-> 0]
    /\ read_ms = [t \in Threads |-> 0]
    /\ now_ts = [t \in Threads |-> 0]
    /\ next_bits = [t \in Threads |-> 0]
    /\ hist = << >>
    /\ commit_ix = [t \in Threads |-> 0]
    /\ returned = {}
    /\ prior = [t \in Threads |-> None]
    /\ calls = 0
    /\ max_read = None

\* ------------------------------------------------------- the operations
\* SnowflakeGenerator::new()
New ==
    /\ gen = "none"
    /\ \E initial_id \in SnowflakeNew(now_ms, 0) :
          IF ~initial_id.ok
          THEN /\ gen' = "panicked"
               /\ UNCHANGED << last_state, hist >>
          ELSE /\ gen' = "ready"
               /\ last_state' = initial_id.v
               /\ hist' = << initial_id.v >>
    /\ max_read' = Larger(max_read, now_ms - EPOCH)
    /\ UNCHANGED << now_ms, pc, locals, commit_ix, returned, prior, calls >>

\* A thread enters generate().
Enter(t) ==
    /\ gen = "ready"
    /\ pc[t] = "idle"
    /\ calls < MaxCalls
    /\ pc' = [pc EXCEPT ![t] = "load"]
    /\ calls' = calls + 1
    /\ UNCHANGED << gen, last_state, now_ms, locals, hist, commit_ix, returned, max_read >>

\* A thread calls generate().
Invoke(t) ==
    /\ Enter(t)
    /\ UNCHANGED prior

\* A thread calls generate(), and the largest identifier that any call has
\* returned by now is put on record.
InvokeAfter(t) ==
    /\ Enter(t)
    /\ prior' = [prior EXCEPT ![t] = LexMax({ r.id : r \in returned })]

\* self.last_state.load(Relaxed): a relaxed load may return the latest word
\* or a word the state held earlier.
Load(t) ==
    /\ pc[t] \in {"load", "spin_seq", "spin_clock"}
    /\ \E v \in Range(hist) : current_bits' = [current_bits EXCEPT ![t] = v]
    /\ pc' = [pc EXCEPT ![t] = "clock"]
    /\ UNCHANGED << gen, last_state, now_ms, read_ms, now_ts, next_bits, hist, commit_ix,
                    returned, prior, calls, max_read >>

\* NextBits without the increment of the Equal arm.
NextBits_NoIncrement(cur, ts) ==
    LET last_ts == ShiftRight(cur, SEQUENCE_BITS)
        last_seq == BitAnd(cur, SEQUENCE_MASK)
    IN  IF ts > last_ts THEN Some(ShiftLeft(ts, SEQUENCE_BITS))
        ELSE IF ts = last_ts
             THEN LET next_seq == last_seq
                  IN  IF next_seq > SEQUENCE_MASK THEN None
                      ELSE Some(BitOr(ShiftLeft(last_ts, SEQUENCE_BITS), next_seq))
        ELSE None

\* NextBits whose Less arm takes the clock's word for it.
NextBits_AcceptRegress(cur, ts) ==
    LET last_ts == ShiftRight(cur, SEQUENCE_BITS)
        last_seq == BitAnd(cur, SEQUENCE_MASK)
    IN  IF ts > last_ts THEN Some(ShiftLeft(ts, SEQUENCE_BITS))
        ELSE IF ts = last_ts
             THEN LET next_seq == last_seq + 1
                  IN  IF next_seq > SEQUENCE_MASK THEN None
                      ELSE Some(BitOr(ShiftLeft(last_ts, SEQUENCE_BITS), next_seq))
        ELSE Some(ShiftLeft(ts, SEQUENCE_BITS))

\* NextBits whose Equal arm lets the sequence wrap around.
NextBits_Wrap(cur, ts) ==
    LET last_ts == ShiftRight(cur, SEQUENCE_BITS)
        last_seq == BitAnd(cur, SEQUENCE_MASK)
    IN  IF ts > last_ts THEN Some(ShiftLeft(ts, SEQUENCE_BITS))
        ELSE IF ts = last_ts
             THEN LET next_seq == last_seq + 1
                  IN  Some(BitOr(ShiftLeft(last_ts, SEQUENCE_BITS), BitAnd(next_seq, SEQUENCE_MASK)))
        ELSE None

\* NextBits whose Equal arm gives up one sequence number early.
NextBits_EarlyExhaust(cur, ts) ==
    LET last_ts == ShiftRight(cur, SEQUENCE_BITS)
        last_seq == BitAnd(cur, SEQUENCE_MASK)
    IN  IF ts > last_ts THEN Some(ShiftLeft(ts, SEQUENCE_BITS))
        ELSE IF ts = last_ts
             THEN LET next_seq == last_seq + 1
                  IN  IF next_seq >= SEQUENCE_MASK THEN None
                      ELSE Some(BitOr(ShiftLeft(last_ts, SEQUENCE_BITS), next_seq))
        ELSE None

\* NextBits whose Greater arm carries the old sequence into the new timestamp.
NextBits_KeepSeq(cur, ts) ==
    LET last_ts == ShiftRight(cur, SEQUENCE_BITS)
        last_seq == BitAnd(cur, SEQUENCE_MASK)
    IN  IF ts > last_ts THEN Some(BitOr(ShiftLeft(ts, SEQUENCE_BITS), last_seq))
        ELSE IF ts = last_ts
             THEN LET next_seq == last_seq + 1
                  IN  IF next_seq > SEQUENCE_MASK THEN None
                      ELSE Some(BitOr(ShiftLeft(last_ts, SEQUENCE_BITS), next_seq))
        ELSE None

\* NextBits whose Equal arm, the sequence exhausted, borrows the next millisecond.
NextBits_Borrow(cur, ts) ==
    LET last_ts == ShiftRight(cur, SEQUENCE_BITS)
        last_seq == BitAnd(cur, SEQUENCE_MASK)
    IN  IF ts > last_ts THEN Some(ShiftLeft(ts, SEQUENCE_BITS))
        ELSE IF ts = last_ts
             THEN LET next_seq == last_seq + 1
                  IN  IF next_seq > SEQUENCE_MASK
                      THEN (IF last_ts + 1 < 2^TIMESTAMP_BITS
                            THEN Some(ShiftLeft(last_ts + 1, SEQUENCE_BITS)) ELSE None)
                      ELSE Some(BitOr(ShiftLeft(last_ts, SEQUENCE_BITS), next_seq))
        ELSE None

\* The match of one loop iteration: the candidate word, or None where the
\* code spins and continues.
NextBits(cur, ts) ==
    LET last_ts == ShiftRight(cur, SEQUENCE_BITS)
        last_seq == BitAnd(cur, SEQUENCE_MASK)
    IN  IF ts > last_ts THEN Some(ShiftLeft(ts, SEQUENCE_BITS))
        ELSE IF ts = last_ts
             THEN LET next_seq == last_seq + 1
                  IN  IF next_seq > SEQUENCE_MASK THEN None
                      ELSE Some(BitOr(ShiftLeft(last_ts, SEQUENCE_BITS), next_seq))
        ELSE None

\* One pass from the loop head to the match: unpack, read the clock, compare.
ReadClock(t) ==
    /\ pc[t] = "clock"
    /\ LET ts == TryFromU64(SaturatingSub(now_ms, EPOCH))
       IN  IF ~ts.ok
           THEN /\ pc' = [pc EXCEPT ![t] = "panicked"]
                /\ UNCHANGED locals
           ELSE IF ~NextBits(current_bits[t], ts.v).ok
                THEN \* spin_loop() of the Equal arm or of the Less arm
                     /\ pc' = [pc EXCEPT ![t] =
                               IF ts.v = ShiftRight(current_bits[t], SEQUENCE_BITS)
                               THEN "spin_seq" ELSE "spin_clock"]
                     /\ UNCHANGED locals
                ELSE /\ pc' = [pc EXCEPT ![t] = "cas"]
                     /\ read_ms' = [read_ms EXCEPT ![t] = now_ms]
                     /\ now_ts' = [now_ts EXCEPT ![t] = ts.v]
                     /\ next_bits' = [next_bits EXCEPT ![t] = NextBits(current_bits[t], ts.v).v]
                     /\ UNCHANGED current_bits
    /\ max_read' = Larger(max_read, now_ms - EPOCH)
    /\ UNCHANGED << gen, last_state, now_ms, hist, commit_ix, returned, prior, calls >>

\* CasOk as a plain store: the candidate is installed whatever the word holds.
CasOk_PlainStore(t) ==
    /\ pc[t] = "cas"
    /\ last_state' = next_bits[t]
    /\ hist' = Append(hist, next_bits[t])
    /\ commit_ix' = [commit_ix EXCEPT ![t] = Len(hist) + 1]
    /\ pc' = [pc EXCEPT ![t] = "ret"]
    /\ UNCHANGED << gen, now_ms, locals, returned, prior, calls, max_read >>

\* compare_exchange_weak succeeds: the word still is current_bits.
CasOk(t) ==
    /\ pc[t] = "cas"
    /\ last_state = current_bits[t]
    /\ last_state' = next_bits[t]
    /\ hist' = Append(hist, next_bits[t])
    /\ commit_ix' = [commit_ix EXCEPT ![t] = Len(hist) + 1]
    /\ pc' = [pc EXCEPT ![t] = "ret"]
    /\ UNCHANGED << gen, now_ms, locals, returned, prior, calls, max_read >>

\* CasErr that goes round again with the current_bits it had.
CasErr_KeepStale(t) ==
    /\ pc[t] = "cas"
    /\ pc' = [pc EXCEPT ![t] = "clock"]
    /\ read_ms' = [read_ms EXCEPT ![t] = 0]
    /\ now_ts' = [now_ts EXCEPT ![t] = 0]
    /\ next_bits' = [next_bits EXCEPT ![t] = 0]
    /\ UNCHANGED << gen, last_state, now_ms, current_bits, hist, commit_ix, returned, prior, calls, max_read >>

\* CasErr that adopts the word reported and tries the candidate it had again.
CasErr_RetryStale(t) ==
    /\ pc[t] = "cas"
    /\ \E fresh_bits \in Range(hist) :
          current_bits' = [current_bits EXCEPT ![t] = fresh_bits]
    /\ UNCHANGED << gen, last_state, now_ms, pc, read_ms, now_ts, next_bits, hist, commit_ix,
                    returned, prior, calls, max_read >>

\* compare_exchange_weak fails and reports the word it read (Relaxed): a
\* word other than current_bits, or spuriously current_bits itself.
CasErr(t) ==
    /\ pc[t] = "cas"
    /\ \E fresh_bits \in Range(hist) :
          current_bits' = [current_bits EXCEPT ![t] = fresh_bits]
    /\ pc' = [pc EXCEPT ![t] = "clock"]
    \* now_ts and next_bits are locals of the loop body: they end with the iteration
    /\ read_ms' = [read_ms EXCEPT ![t] = 0]
    /\ now_ts' = [now_ts EXCEPT ![t] = 0]
    /\ next_bits' = [next_bits EXCEPT ![t] = 0]
    /\ UNCHANGED << gen, last_state, now_ms, hist, commit_ix, returned, prior, calls, max_read >>

\* Return that hands out the word the call replaced.
Return_OldWord(t) ==
    /\ pc[t] = "ret"
    /\ returned' = returned \cup { [id |-> current_bits[t], at |-> commit_ix[t]] }
    /\ pc' = [pc EXCEPT ![t] = "idle"]
    /\ current_bits' = [current_bits EXCEPT ![t] = 0]
    /\ read_ms' = [read_ms EXCEPT ![t] = 0]
    /\ now_ts' = [now_ts EXCEPT ![t] = 0]
    /\ next_bits' = [next_bits EXCEPT ![t] = 0]
    /\ commit_ix' = [commit_ix EXCEPT ![t] = 0]
    /\ prior' = [prior EXCEPT ![t] = None]
    /\ UNCHANGED << gen, last_state, now_ms, hist, calls, max_read >>

\* return Snowflake(next_bits)
Return(t) ==
    /\ pc[t] = "ret"
    /\ returned' = returned \cup { [id |-> next_bits[t], at |-> commit_ix[t]] }
    /\ pc' = [pc EXCEPT ![t] = "idle"]
    /\ current_bits' = [current_bits EXCEPT ![t] = 0]
    /\ read_ms' = [read_ms EXCEPT ![t] = 0]
    /\ now_ts' = [now_ts EXCEPT ![t] = 0]
    /\ next_bits' = [next_bits EXCEPT ![t] = 0]
    /\ commit_ix' = [commit_ix EXCEPT ![t] = 0]
    /\ prior' = [prior EXCEPT ![t] = None]
    /\ UNCHANGED << gen, last_state, now_ms, hist, calls, max_read >>

\* The clock moves forward by a millisecond, within the readings in `range`.
\* Any number of these steps fit between two readings, so that two readings
\* can be any distance apart.
ClockAdvance(range) ==
    /\ now_ms + 1 \in range
    /\ now_ms' = now_ms + 1
    /\ UNCHANGED << gen, last_state, pc, locals, hist, commit_ix, returned, prior, calls, max_read >>

\* The clock moves backwards by a millisecond.
ClockRegress ==
    /\ now_ms > 0
    /\ now_ms' = now_ms - 1
    /\ UNCHANGED << gen, last_state, pc, locals, hist, commit_ix, returned, prior, calls, max_read >>

Generate(t) ==
    \/ Invoke(t)
    \/ Load(t)
    \/ ReadClock(t)
    \/ CasOk(t)
    \/ CasErr(t)
    \/ Return(t)

Next ==
    \/ New
    \/ \E t \in Threads : Generate(t)
    \/ ClockAdvance(ClockInRange)
    \/ ClockRegress

\* Every clock reading fits the timestamp field or lies before EPOCH.
Spec == Init /\ [][Next]_vars

NextAnyClock ==
    \/ New
    \/ \E t \in Threads : Generate(t)
    \/ ClockAdvance(ClockAll)
    \/ ClockRegress

\* The clock may also run past what the timestamp field, and the word, can hold.
SpecAnyClock == Init /\ [][NextAnyClock]_vars

NextRealTime ==
    \/ New
    \/ \E t \in Threads :
          \/ InvokeAfter(t)
          \/ Load(t)
          \/ ReadClock(t)
          \/ CasOk(t)
          \/ CasErr(t)
          \/ Return(t)
    \/ ClockAdvance(ClockInRange)
    \/ ClockRegress

\* Spec, with what had been returned on record at each invocation.
SpecRealTime == Init /\ [][NextRealTime]_vars

\* The steps of a call under way.
Step(t) ==
    \/ Load(t)
    \/ ReadClock(t)
    \/ CasOk(t)
    \/ CasErr(t)
    \/ Return(t)

\* A load, or a failed compare-and-swap, that observes the latest word.
FreshRead(t) ==
    /\ Load(t) \/ CasErr(t)
    /\ current_bits'[t] = last_state

\* A correct clock: it advances and never goes back.
NextLive ==
    \/ New
    \/ \E t \in Threads : Generate(t)
    \/ ClockAdvance(ClockInRange)

\* Every thread inside generate() keeps being scheduled and the clock keeps
\* advancing (as far as the model's readings go); a store becomes visible to
\* the other threads' relaxed reads in the end, and compare_exchange_weak
\* does not fail spuriously for ever.
SpecLive ==
    /\ Init
    /\ [][NextLive]_vars
    /\ WF_vars(ClockAdvance(ClockInRange))
    /\ \A t \in Threads :
          /\ WF_vars(Step(t))
          /\ SF_vars(FreshRead(t))
          /\ SF_vars(CasOk(t))

\* ------------------------------------------------------------ the claims
\* The identifiers issued so far: those returned, and those of the calls whose
\* compare-and-swap has succeeded and that are about to return.
Issued ==
    returned \cup { [id |-> next_bits[t], at |-> commit_ix[t]] : t \in { u \in Threads : pc[u] = "ret" } }

\* The number of calls that have returned.
Completed == calls - Cardinality({ t \in Threads : pc[t] # "idle" })

\* The clock now reads less than the timestamp the state holds.
ClockBehindState == gen = "ready" /\ SaturatingSub(now_ms, EPOCH) < TsOf(last_state)

\* C1. Uniqueness: no two calls of generate() on the shared generator are
\* issued the same identifier, whatever the interleaving of the threads and
\* the clock readings, and the calls that have returned hold as many
\* distinct identifiers as there are such calls.
C1_Uniqueness ==
    /\ \A a, b \in Issued : a.at # b.at => a.id # b.id
    /\ Cardinality({ r.id : r \in returned }) = Completed

\* Two calls have succeeded while both were in flight, after others returned.
C1_Witness ==
    /\ \A t \in Threads : pc[t] = "ret"
    /\ returned # {}

\* C2. Monotonicity by commit order: of two calls, the one whose
\* compare-and-swap succeeded first is issued the strictly smaller
\* (timestamp, sequence) pair.
C2_CommitOrder ==
    \A a, b \in Issued : a.at < b.at => LexLess(a.id, b.id)

\* Identifiers of two timestamps have been issued and the clock has fallen
\* behind the state since.
C2_Witness ==
    /\ ClockBehindState
    /\ \E a, b \in Issued : a.at < b.at /\ TsOf(a.id) < TsOf(b.id)

\* C3. Invariants I2 and I3: no step of any thread lowers the state word
\* read as (timestamp, sequence), nor its timestamp field, also when the
\* clock reads less than the stored timestamp.
C3_StateNeverDecreases ==
    [][gen = "ready" =>
          /\ LexLeq(last_state, last_state')
          /\ TsOf(last_state) <= TsOf(last_state')]_vars

\* A call has read a clock behind the timestamp it loaded, and the state has
\* moved on since construction.
C3_Witness ==
    /\ \E t \in Threads : pc[t] = "spin_clock"
    /\ Len(hist) > 1

\* The step of thread t that takes it from the loop head through the match.
Iterates(t) == pc[t] = "clock" /\ pc'[t] # "clock"

\* The state word, the identifiers returned and the thread's own status stay
\* as they are, and the thread goes to spin at `where`.
SpinsAt(t, where) ==
    /\ pc'[t] = where
    /\ last_state' = last_state
    /\ hist' = hist
    /\ returned' = returned

C5_SequenceExhaustion ==
    /\ [][\A t \in Threads :
            (/\ Iterates(t)
             /\ SeqOf(current_bits[t]) = 2^SEQUENCE_BITS - 1
             /\ SaturatingSub(now_ms, EPOCH) = TsOf(current_bits[t]))
                => SpinsAt(t, "spin_seq")]_vars
    /\ [][(gen = "ready" /\ hist' # hist /\ SeqOf(last_state) = 2^SEQUENCE_BITS - 1)
            => TsOf(last_state') # TsOf(last_state)]_vars
    /\ [](\A i \in 1..Len(hist) : SeqOf(hist[i]) \in 0..(2^SEQUENCE_BITS - 1))

\* A call spins on the exhausted sequence of the state's millisecond.
C5_Witness ==
    \E t \in Threads :
        /\ pc[t] = "spin_seq"
        /\ current_bits[t] = last_state
        /\ SeqOf(last_state) = 2^SEQUENCE_BITS - 1

\* The number of calls that were issued an identifier of timestamp ts.
ServedAt(ts) == Cardinality({ i \in 2..Len(hist) : TsOf(hist[i]) = ts })

\* The first word installed after an exhausted one has sequence 0 and a
\* later timestamp.
ResumesAtZero ==
    [][(gen = "ready" /\ hist' # hist /\ SeqOf(last_state) = 2^SEQUENCE_BITS - 1)
        => (SeqOf(last_state') = 0 /\ TsOf(last_state') > TsOf(last_state))]_vars

\* C6, as claimed. Sequence rollover boundary: in the millisecond of the
\* construction and in any later one, the call that spins on the exhausted
\* sequence is the 2^SEQUENCE_BITS-th of that millisecond, 2^SEQUENCE_BITS - 1
\* calls having been served in it.
C6_Original ==
    \A t \in Threads :
        pc[t] = "spin_seq" => ServedAt(TsOf(current_bits[t])) = 2^SEQUENCE_BITS - 1

\* C6, amended. In the millisecond of the construction the spinning call is
\* the 2^SEQUENCE_BITS-th (the word seeded by new() takes sequence 0 and is
\* issued to nobody); in a later millisecond 2^SEQUENCE_BITS calls are served,
\* with sequences 0 .. 2^SEQUENCE_BITS - 1, and it is the next call that spins.
\* Either way the next word installed has sequence 0 at a later timestamp.
C6_RolloverBoundary ==
    /\ [](\A t \in Threads :
            pc[t] = "spin_seq" =>
                ServedAt(TsOf(current_bits[t])) =
                    IF TsOf(current_bits[t]) = TsOf(hist[1])
                    THEN 2^SEQUENCE_BITS - 1 ELSE 2^SEQUENCE_BITS)
    /\ ResumesAtZero

\* A call spins on the exhausted sequence of a millisecond later than the
\* construction's.
C6_Witness ==
    \E t \in Threads :
        /\ pc[t] = "spin_seq"
        /\ TsOf(current_bits[t]) # TsOf(hist[1])

\* The last word there is has been issued: no identifier is left until the
\* clock shows a reading past the model's last one.
WordSpaceExhausted == gen = "ready" /\ last_state = WordLimit - 1

C8_RealTimeOrder ==
    \A t \in Threads :
        (pc[t] = "ret" /\ prior[t].ok) => LexLess(prior[t].v, next_bits[t])

\* A call invoked after a return has been issued its identifier while
\* another such call spins on a clock that has regressed since.
C8_Witness ==
    \E t, u \in Threads :
        /\ pc[t] = "ret" /\ prior[t].ok
        /\ pc[u] = "spin_clock" /\ prior[u].ok

\* C9, as claimed. Timestamp-field overflow is fatal: with a clock reading
\* whose relative timestamp does not fit the timestamp field (it is
\* 2^TIMESTAMP_BITS or more), the construction and the iteration of generate()
\* that reads it end in a panic, and no word is stored from such a reading.
C9_OverflowIsFatal ==
    [][/\ (gen = "none" /\ gen' # "none" /\ now_ms >= EPOCH + 2^TIMESTAMP_BITS)
            => (gen' = "panicked" /\ hist' = hist)
       /\ \A t \in Threads :
            (Iterates(t) /\ now_ms >= EPOCH + 2^TIMESTAMP_BITS)
                => (pc'[t] = "panicked" /\ hist' = hist)]_vars

\* C10. Construction: new() with a reading at or after EPOCH stores the word
\* (now_ms - EPOCH, 0); with a reading before EPOCH it panics and there is no
\* generator, no state word and no call.
C10_Construction ==
    /\ [][(gen = "none" /\ gen' # "none") =>
            IF now_ms >= EPOCH
            THEN /\ gen' = "ready"
                 /\ TsOf(last_state') = now_ms - EPOCH
                 /\ SeqOf(last_state') = 0
                 /\ hist' = << last_state' >>
            ELSE /\ gen' = "panicked"
                 /\ hist' = << >>]_vars
    /\ [](gen = "panicked" => (hist = << >> /\ calls = 0))

\* The construction has failed on a clock before EPOCH.
C10_Witness == gen = "panicked" /\ now_ms < EPOCH

\* C11. A clock before EPOCH is fatal inside generate(): an iteration whose
\* clock reading is earlier than EPOCH ends the call with a panic, and no
\* call reaches its compare-and-swap or returns an identifier with such a
\* reading, the stored timestamp being 0 or not.
C11_PreEpochIsFatal ==
    /\ [][\A t \in Threads :
            (Iterates(t) /\ now_ms < EPOCH) => pc'[t] = "panicked"]_vars
    /\ [](\A t \in Threads : pc[t] \in {"cas", "ret"} => read_ms[t] >= EPOCH)

C12_TimestampRecovery ==
    \A t \in Threads :
        pc[t] = "ret" =>
            /\ ExtractUnixTimestamp(next_bits[t]) = (next_bits[t] \div 2^SEQUENCE_BITS) + EPOCH
            /\ ExtractUnixTimestamp(next_bits[t]) = read_ms[t]

\* C13. Round trip: every identifier issued, and every word the state has
\* held, is what packing its own two fields gives,
\* ((id >> SEQUENCE_BITS) << SEQUENCE_BITS) | (id & SEQUENCE_MASK) = id,
\* with the sequence in 0 .. 2^SEQUENCE_BITS - 1 and the timestamp in
\* 0 .. 2^TIMESTAMP_BITS - 1; and the identifier a call is returning unpacks
\* to the timestamp the call packed into it.
C13_RoundTrip ==
    /\ \A id \in { r.id : r \in Issued } \cup Range(hist) :
          /\ BitOr(ShiftLeft(ShiftRight(id, SEQUENCE_BITS), SEQUENCE_BITS),
                   BitAnd(id, SEQUENCE_MASK)) = id
          /\ BitAnd(id, SEQUENCE_MASK) \in 0 .. (2^SEQUENCE_BITS - 1)
          /\ ShiftRight(id, SEQUENCE_BITS) \in 0 .. (2^TIMESTAMP_BITS - 1)
    /\ \A t \in Threads :
          pc[t] = "ret" => ShiftRight(next_bits[t], SEQUENCE_BITS) = now_ts[t]

\* An identifier with both fields above 0 has been returned.
C13_Witness == \E r \in returned : TsOf(r.id) > 0 /\ SeqOf(r.id) > 0

\* C14. Candidate computation: an iteration that goes to its
\* compare-and-swap has computed, from the word it holds and the clock it
\* read, the candidate (now_ts, 0) when now_ts is above the loaded timestamp
\* and (last_ts, last_seq + 1) when now_ts equals it and last_seq is below
\* 2^SEQUENCE_BITS - 1; and every change of the state word after construction
\* either raises the timestamp and sets the sequence to 0, or keeps the
\* timestamp and raises the sequence by exactly 1.
C14_Candidate ==
    /\ [][\A t \in Threads :
            (Iterates(t) /\ pc'[t] = "cas") =>
               LET last_ts == current_bits[t] \div 2^SEQUENCE_BITS
                   last_seq == current_bits[t] % 2^SEQUENCE_BITS
                   cand_ts == next_bits'[t] \div 2^SEQUENCE_BITS
                   cand_seq == next_bits'[t] % 2^SEQUENCE_BITS
               IN  /\ now_ts'[t] = SaturatingSub(now_ms, EPOCH)
                   /\ current_bits'[t] = current_bits[t]
                   /\ \/ now_ts'[t] > last_ts /\ cand_ts = now_ts'[t] /\ cand_seq = 0
                      \/ /\ now_ts'[t] = last_ts /\ last_seq < 2^SEQUENCE_BITS - 1
                         /\ cand_ts = last_ts /\ cand_seq = last_seq + 1]_vars
    /\ [][(gen = "ready" /\ last_state' # last_state) =>
            \/ TsOf(last_state') > TsOf(last_state) /\ SeqOf(last_state') = 0
            \/ TsOf(last_state') = TsOf(last_state) /\ SeqOf(last_state') = SeqOf(last_state) + 1]_vars

\* The state has made a step of each kind, the first from a word whose
\* sequence was above 0.
C14_Witness ==
    /\ \E i \in 1..(Len(hist) - 1) :
          TsOf(hist[i + 1]) > TsOf(hist[i]) /\ SeqOf(hist[i]) > 0 /\ SeqOf(hist[i + 1]) = 0
    /\ \E i \in 1..(Len(hist) - 1) :
          TsOf(hist[i + 1]) = TsOf(hist[i]) /\ SeqOf(hist[i + 1]) = SeqOf(hist[i]) + 1

\* The step by which thread t's compare-and-swap fails.
CasFails(t) == pc[t] = "cas" /\ pc'[t] = "clock"

\* After a failed compare-and-swap the state word, its history and the
\* identifiers returned are as before, and the thread is back at the loop
\* head holding a word the state has held.
FailureLeavesState(t) ==
    /\ last_state' = last_state
    /\ hist' = hist
    /\ returned' = returned
    /\ current_bits'[t] \in Range(hist)

\* C15 as stated. A compare-and-swap fails only when the state word is no
\* longer the one the call holds, another thread having changed it; after
\* the failure the call adopts the word reported and goes back to read the
\* clock, and the state word is as the failed attempt found it.
C15_Original ==
    [][\A t \in Threads :
         CasFails(t) => (last_state # current_bits[t] /\ FailureLeavesState(t))]_vars

\* C15, amended. A compare-and-swap succeeds only while the state word is
\* the one the call holds, and it may fail whether the word differs or not;
\* a failure of either kind leaves the state word as it was and sends the
\* call back to the loop head with the word reported; and the candidate a
\* call brings to a compare-and-swap was computed from the word it then
\* holds, never carried over from before a failure.
C15_CasFailure ==
    /\ [][\A t \in Threads :
            /\ CasFails(t) => FailureLeavesState(t)
            /\ (pc[t] = "cas" /\ pc'[t] = "ret") =>
                  (last_state = current_bits[t] /\ last_state' = next_bits[t])
            /\ pc[t] = "cas" => pc'[t] \in {"cas", "clock", "ret"}]_vars
    /\ [](\A t \in Threads :
            pc[t] = "cas" =>
               \/ TsOf(next_bits[t]) > TsOf(current_bits[t]) /\ SeqOf(next_bits[t]) = 0
               \/ /\ TsOf(next_bits[t]) = TsOf(current_bits[t])
                  /\ SeqOf(next_bits[t]) = SeqOf(current_bits[t]) + 1)

\* Two calls computed candidates from the same word; one has installed its
\* own, and the other stands at a compare-and-swap that has to fail.
C15_Witness ==
    \E t, u \in Threads :
        /\ pc[t] = "cas" /\ pc[u] = "ret"
        /\ commit_ix[u] = Len(hist)
        /\ current_bits[t] = hist[Len(hist) - 1]
        /\ current_bits[u] = current_bits[t]

\* C16. One identifier per transition: every word the state has taken
\* after construction was installed by exactly one call of generate(), which
\* is issued exactly that word, and every call that is issued an identifier
\* made exactly one such change; no two calls replaced the same word; and
\* when no call is in flight the identifiers returned are the words the state
\* has held after the initial one, each once.
C16_OnePerTransition ==
    gen = "ready" =>
        /\ \A r \in Issued : r.at \in 2..Len(hist) /\ hist[r.at] = r.id
        /\ { r.at : r \in Issued } = 2..Len(hist)
        /\ Cardinality(Issued) = Len(hist) - 1
        /\ \A a, b \in Issued : a # b => hist[a.at - 1] # hist[b.at - 1]
        /\ (\A t \in Threads : pc[t] = "idle") =>
              /\ { r.id : r \in returned } = { hist[i] : i \in 2..Len(hist) }
              /\ Cardinality({ r.id : r \in returned }) = Len(hist) - 1
              /\ Completed = Len(hist) - 1
              /\ hist[1] \notin { r.id : r \in returned }

\* All the calls have been made and have returned: as many identifiers as
\* changes of the state.
C16_Witness ==
    /\ \A t \in Threads : pc[t] = "idle"
    /\ Cardinality(returned) = MaxCalls
    /\ Len(hist) = MaxCalls + 1

\* C18. The state never runs ahead of the clock: the timestamp of the state
\* word, and of every identifier issued, is at most the largest
\* now_ms - EPOCH that new() or a call of generate() has read so far.
C18_NotAheadOfClock ==
    gen = "ready" =>
        /\ max_read.ok
        /\ TsOf(last_state) <= max_read.v
        /\ \A r \in Issued : TsOf(r.id) <= max_read.v

\* The state holds the largest reading taken, installed by generate(), and
\* the clock has since fallen behind it.
C18_Witness ==
    /\ ClockBehindState
    /\ max_read.ok /\ TsOf(last_state) = max_read.v
    /\ Len(hist) >= 2 /\ TsOf(last_state) > TsOf(hist[1])

\* C19. No ABA: the state word never takes a value it has held before, so
\* the call whose compare-and-swap succeeded held the word that was current
\* just before, a word the state held at no other time; and although a
\* relaxed load may hand a call an old word, the identifiers issued are
\* distinct and increase in the order of the successful compare-and-swaps.
C19_NoABA ==
    /\ \A i, j \in 1..Len(hist) : i < j => hist[i] # hist[j]
    /\ \A t \in Threads :
          pc[t] = "ret" =>
             /\ hist[commit_ix[t] - 1] = current_bits[t]
             /\ \A i \in 1..Len(hist) : hist[i] = current_bits[t] => i = commit_ix[t] - 1
    /\ \A a, b \in Issued : a.at < b.at => (a.id # b.id /\ LexLess(a.id, b.id))

\* A call stands at its compare-and-swap with the initial word, which the
\* state left two changes ago.
C19_Witness ==
    /\ Len(hist) >= 3
    /\ \E t \in Threads : pc[t] = "cas" /\ current_bits[t] = hist[1]

\* The sequences of the identifiers in `ids` that carry the timestamp ts.
SeqsAt(ids, ts) == { SeqOf(id) : id \in { x \in ids : TsOf(x) = ts } }

\* The sequences `seqs` used at timestamp ts leave no gap: none, or all from
\* 1 (the timestamp new() seeded) or from 0 (any other) up to some k.
GapFree(seqs, ts) ==
    LET lo == IF ts = TsOf(hist[1]) THEN 1 ELSE 0
    IN  seqs = {} \/ \E k \in lo..(2^SEQUENCE_BITS - 1) : seqs = lo..k

\* C20. Sequences are gap-free per timestamp: the identifiers issued with a
\* timestamp t carry the sequences 0 .. k when t was first stored by
\* generate() and 1 .. k when t is the timestamp new() stored; the initial
\* word (t, 0) is issued to no call; and once every call has returned the
\* same holds of the identifiers returned.
C20_GapFree ==
    gen = "ready" =>
        /\ \A ts \in 0..(2^TIMESTAMP_BITS - 1) :
              GapFree(SeqsAt({ r.id : r \in Issued }, ts), ts)
        /\ hist[1] \notin { r.id : r \in Issued }
        /\ (\A t \in Threads : pc[t] = "idle") =>
              \A ts \in 0..(2^TIMESTAMP_BITS - 1) :
                 GapFree(SeqsAt({ r.id : r \in returned }, ts), ts)

\* Sequence 1 of the timestamp new() stored and sequences 0 and 1 of a later
\* timestamp have been returned.
C20_Witness ==
    /\ gen = "ready" /\ \A t \in Threads : pc[t] = "idle"
    /\ SeqsAt({ r.id : r \in returned }, TsOf(hist[1])) = {1}
    /\ \E ts \in 0..(2^TIMESTAMP_BITS - 1) :
          ts # TsOf(hist[1]) /\ SeqsAt({ r.id : r \in returned }, ts) = {0, 1}
====
